---- MODULE Spec2Model ----
(***************************************************************************)
(* imgopt (src/optimize.py): batch conversion of a directory tree of       *)
(* images to WebP.  The module models                                      *)
(*   - get_unique_output_folder and the scan of main over a filesystem,    *)
(*   - process_single_image (destination path, resize arithmetic, the      *)
(*     catch-all that turns a failure into an outcome),                    *)
(*   - the ProcessPoolExecutor run of main with the aggregation loop, the  *)
(*     signal handler and the exit statuses.                               *)
(***************************************************************************)
EXTENDS Integers, Sequences, FiniteSets, TLC

(***************************************************************************)
(* IEEE-754 binary64 arithmetic of the resize step                         *)
(*     ratio = max_width / img.width ; new_height = int(img.height*ratio)  *)
(* A positive double is [mant, exp]: mant a sequence of at most Precision  *)
(* bits, most significant first and starting with 1, value mant * 2^exp.   *)
(***************************************************************************)
Precision == 53

RECURSIVE ToBits(_)
ToBits(c) == IF c = 0 THEN <<>> ELSE ToBits(c \div 2) \o <<c % 2>>

RECURSIVE FromBits(_)
FromBits(b) ==
    IF b = <<>> THEN 0
    ELSE 2 * FromBits(SubSeq(b, 1, Len(b) - 1)) + b[Len(b)]

RECURSIVE IncBits(_)
IncBits(b) ==
    IF b = <<>> THEN <<1>>
    ELSE IF b[Len(b)] = 0 THEN SubSeq(b, 1, Len(b) - 1) \o <<1>>
    ELSE IncBits(SubSeq(b, 1, Len(b) - 1)) \o <<0>>

\* Round the bit string bits (followed by a tail that is non-zero iff sticky)
\* to Precision bits, ties to even; dropped is the number of low bits removed.
RoundNearestEven(bits, sticky) ==
    IF Len(bits) <= Precision THEN [mant |-> bits, dropped |-> 0]
    ELSE LET kept  == SubSeq(bits, 1, Precision)
             guard == bits[Precision + 1]
             st    == sticky \/ \E i \in (Precision + 2)..Len(bits) : bits[i] = 1
             up    == guard = 1 /\ (st \/ kept[Precision] = 1)
             m     == IF up THEN IncBits(kept) ELSE kept
         IN  IF Len(m) > Precision
             THEN [mant |-> SubSeq(m, 1, Precision),
                   dropped |-> Len(bits) - Precision + 1]
             ELSE [mant |-> m, dropped |-> Len(bits) - Precision]

\* Leading zero bits of the binary fraction r/w (0 < r < w), counted from z,
\* and r shifted past them.
RECURSIVE LeadZeros(_, _, _)
LeadZeros(r, w, z) ==
    IF 2 * r >= w THEN [z |-> z, r |-> r] ELSE LeadZeros(2 * r, w, z + 1)

\* The next n bits of the binary fraction r/w appended to acc, and the
\* remainder left.
RECURSIVE LongDiv(_, _, _, _)
LongDiv(r, w, n, acc) ==
    IF n = 0 THEN [bits |-> acc, rem |-> r]
    ELSE IF 2 * r >= w THEN LongDiv(2 * r - w, w, n - 1, Append(acc, 1))
    ELSE LongDiv(2 * r, w, n - 1, Append(acc, 0))

\* m / w for integers 0 < m < w: Python's true division, correctly rounded.
TrueDiv(m, w) ==
    LET lz == LeadZeros(m, w, 0)
        d  == LongDiv(lz.r, w, Precision + 1, <<>>)
        r  == RoundNearestEven(d.bits, d.rem # 0)
    IN  [mant |-> r.mant, exp |-> r.dropped - (lz.z + Precision + 1)]

\* The bits of bits * h + c, the multiplication done from the low bit up.
RECURSIVE MulBits(_, _, _)
MulBits(bits, h, c) ==
    IF bits = <<>> THEN ToBits(c)
    ELSE IF (bits[Len(bits)] * h + c) % 2 = 1
    THEN MulBits(SubSeq(bits, 1, Len(bits) - 1), h,
                 (bits[Len(bits)] * h + c) \div 2) \o <<1>>
    ELSE MulBits(SubSeq(bits, 1, Len(bits) - 1), h,
                 (bits[Len(bits)] * h + c) \div 2) \o <<0>>

\* h * f for an integer h >= 1 and a double f: the rounded floating product.
MulInt(h, f) ==
    LET r == RoundNearestEven(MulBits(f.mant, h, 0), FALSE)
    IN  [mant |-> r.mant, exp |-> f.exp + r.dropped]

\* int(f) for a positive double below 2^Precision: truncation toward zero.
Trunc(f) ==
    LET n == Len(f.mant) + f.exp
    IN  IF n <= 0 THEN 0 ELSE FromBits(SubSeq(f.mant, 1, n))

\* new_height of the resize branch (taken only when 0 < max_width < width).
NewHeight(width, height, maxw) == Trunc(MulInt(height, TrueDiv(maxw, width)))

(***************************************************************************)
(* Bounds of the model                                                     *)
(***************************************************************************)
MaxDim     == 22   \* image widths, heights and max widths are in 1..MaxDim
MaxK       == 3    \* base/name, base/name_1 .. base/name_MaxK may exist
MaxFiles   == 2    \* entries with a suffix below the input root
MaxSize    == 2    \* an encoded file has 1..MaxSize bytes
NumWorkers == 2    \* processes of the pool (os.cpu_count())

(***************************************************************************)
(* Paths.  A path is the sequence of its components below the input root;  *)
(* a directory component is <<name, k>>, standing for "name" when k = 0    *)
(* and for f"{name}_{k}" otherwise.  An entry of the tree with a suffix is *)
(* [dir, stem, suffix, isfile, size].                                      *)
(***************************************************************************)
OutName  == "out"
Sub      == <<"sub", 0>>
InputDir == <<<<"in", 0>>>>
Kinds    == {"absent", "file", "dir"}
EXTENSIONS == {".png", ".jpg", ".jpeg", ".bmp", ".tiff"}

\* str.lower() on the suffixes that occur.
Lower(s) == CASE s = ".JPG" -> ".jpg" [] s = ".PNG" -> ".png" [] OTHER -> s

\* f"{name}_{counter}"
Suffixed(n, k) == <<n, k>>

\* base / name: joining an empty name gives base itself.
Join(base, n) == IF n = "" THEN base ELSE Append(base, <<n, 0>>)

\* Path.parents of an entry: every ancestor directory.
Parents(f) == {SubSeq(f.dir, 1, n) : n \in 0..Len(f.dir)}

\* Path.relative_to(root) of a directory below root.
RelativeTo(d, root) == SubSeq(d, Len(root) + 1, Len(d))

\* What base/name_k is on a disk fs (k = 0: base/name); nothing exists
\* beyond the candidates the disk holds.
KindOf(fs, k) == IF k \in DOMAIN fs THEN fs[k] ELSE "absent"

VARIABLES
    kind,        \* kind[k]: what base/name (k = 0) or base/name_k is on disk
    disk,        \* the entries with a suffix below the input root
    name,        \* args.output: OutName, or "" for an empty name
    run,         \* which invocation of the tool this is
    pc,          \* where main is
    output_dir,  \* output_dir of main
    files,       \* files of main: the work set, in submission order
    st,          \* st[i]: pending | running | done | cancelled, per task
    res,         \* res[i]: what task i returned (or raised)
    nxt,         \* number of results the loop of main has consumed
    success, failed, orig_total, new_total,
    pct,         \* pct of the report, as the fraction [num, den]
    interrupted, \* signal_handler has run
    code,        \* exit status of the process, -1 while it runs
    msg,         \* the last line logged
    written,     \* paths img.save has written in this run
    counts,      \* len(files) of each scan so far
    img,         \* size <<width, height>> of the image opened
    max_width,   \* target_width: 0 stands for None
    out_size     \* size of the image saved, <<0, 0>> before

vars == <<kind, disk, name, run, pc, output_dir, files, st, res, nxt, success,
          failed, orig_total, new_total, pct, interrupted, code, msg, written,
          counts, img, max_width, out_size>>

fsVars    == <<kind, disk, name>>
poolVars  == <<files, st, res, nxt, success, failed, orig_total, new_total, pct>>
imageVars == <<img, max_width, out_size>>

(***************************************************************************)
(* get_unique_output_folder                                                *)
(***************************************************************************)
RECURSIVE FirstMissing(_, _)
FirstMissing(fs, k) ==
    IF KindOf(fs, k) = "absent" THEN k ELSE FirstMissing(fs, k + 1)

\* The loop testing "not new_path.exists()" in place of is_file().
get_unique_output_folder_exists(fs, base, n) ==
    IF n # "" /\ KindOf(fs, 0) # "absent" /\ KindOf(fs, 0) = "file"
    THEN Append(base, Suffixed(n, FirstMissing(fs, 1)))
    ELSE Join(base, n)

\* The loop "counter = 1; while True: ... counter += 1" from counter k on.
RECURSIVE FirstFree(_, _)
FirstFree(fs, k) ==
    IF KindOf(fs, k) # "file" THEN k ELSE FirstFree(fs, k + 1)

\* base / "" is base itself, a directory: only a named path can be a file.
get_unique_output_folder(fs, base, n) ==
    IF n # "" /\ KindOf(fs, 0) # "absent" /\ KindOf(fs, 0) = "file"
    THEN Append(base, Suffixed(n, FirstFree(fs, 1)))
    ELSE Join(base, n)

(***************************************************************************)
(* process_single_image                                                    *)
(***************************************************************************)
\* The statements of the try block, any of which may raise.
Steps == {"relative_to", "mkdir", "stat", "open", "resize", "save", "stat_out"}

\* The destination without with_suffix('.webp').
OutputFilePathKeepsSuffix(f, output_root, input_root) ==
    [dir    |-> output_root \o RelativeTo(f.dir, input_root),
     stem   |-> f.stem,
     suffix |-> f.suffix]

\* output_root / file_path.relative_to(input_root).with_suffix('.webp')
OutputFilePath(f, output_root, input_root) ==
    [dir    |-> output_root \o RelativeTo(f.dir, input_root),
     stem   |-> f.stem,
     suffix |-> ".webp"]

\* The path of an entry.
PathOf(f) == [dir |-> f.dir, stem |-> f.stem, suffix |-> f.suffix]

\* The disk d after a file of n bytes is written at path p.
WriteFile(d, p, n) ==
    {e \in d : PathOf(e) # p}
    \cup {[dir |-> p.dir, stem |-> p.stem, suffix |-> p.suffix, isfile |-> TRUE,
            size |-> n]}

\* Whether a call whose step fail raised ("none": nothing raised) got as far
\* as img.save opening its destination.
Saves(fail) == fail \in {"none", "save", "stat_out"}

\* The resize with the height left as it was.
ResizedSizeKeepsHeight(w, h, maxw) ==
    IF maxw # 0 /\ w > maxw THEN <<maxw, h>> ELSE <<w, h>>

\* The "Smart Resize" of the with block: the size of the image saved.
ResizedSize(w, h, maxw) ==
    IF maxw # 0 /\ w > maxw THEN <<maxw, NewHeight(w, h, maxw)>> ELSE <<w, h>>

\* The call with relative_to and mkdir placed before the try.
process_single_image_unguarded(f, fail, orig, new) ==
    IF fail = "none"
    THEN [kind |-> "ok",   name |-> <<f.stem, f.suffix>>, orig |-> orig, new |-> new]
    ELSE IF fail \in {"relative_to", "mkdir"}
    THEN [kind |-> "raised"]
    ELSE [kind |-> "fail", name |-> <<f.stem, f.suffix>>, orig |-> 0, new |-> 0]

\* What the call returns: every statement that may raise is inside the try,
\* whose handler returns the failure tuple.
process_single_image(f, fail, orig, new) ==
    IF fail = "none"
    THEN [kind |-> "ok",   name |-> <<f.stem, f.suffix>>, orig |-> orig, new |-> new]
    ELSE [kind |-> "fail", name |-> <<f.stem, f.suffix>>, orig |-> 0, new |-> 0]

(***************************************************************************)
(* main: the scan, the report                                              *)
(***************************************************************************)
\* The condition without the exclusion of the output directory.
QualifiesNoExclusion(f, outdir) ==
    /\ Lower(f.suffix) \in EXTENSIONS
    /\ f.isfile

\* The condition of the list comprehension over input_dir.rglob("*").
Qualifies(f, outdir) ==
    /\ Lower(f.suffix) \in EXTENSIONS
    /\ f.isfile
    /\ outdir \notin Parents(f)

\* The sequences that list the set S once each: rglob's order is the disk's.
Orders(S) == {q \in [1..Cardinality(S) -> S] : \A e \in S : \E i \in DOMAIN q : q[i] = e}

\* The loop body without its else branch.
FoldDropsFailure(acc, r) ==
    IF r.kind = "ok"
    THEN [success    |-> acc.success + 1,
          failed     |-> acc.failed,
          orig_total |-> acc.orig_total + r.orig,
          new_total  |-> acc.new_total + r.new]
    ELSE acc

\* The loop body adding the original size to both totals.
FoldAddsOrigTwice(acc, r) ==
    IF r.kind = "ok"
    THEN [success    |-> acc.success + 1,
          failed     |-> acc.failed,
          orig_total |-> acc.orig_total + r.orig,
          new_total  |-> acc.new_total + r.orig]
    ELSE [success    |-> acc.success,
          failed     |-> acc.failed + 1,
          orig_total |-> acc.orig_total,
          new_total  |-> acc.new_total]

\* The body of "for is_ok, msg, orig, new_s in results" on the counters acc.
Fold(acc, r) ==
    IF r.kind = "ok"
    THEN [success    |-> acc.success + 1,
          failed     |-> acc.failed,
          orig_total |-> acc.orig_total + r.orig,
          new_total  |-> acc.new_total + r.new]
    ELSE [success    |-> acc.success,
          failed     |-> acc.failed + 1,
          orig_total |-> acc.orig_total,
          new_total  |-> acc.new_total]

\* pct = (saved / orig_total * 100) if orig_total > 0 else 0
Pct(o, n) == IF o > 0 THEN [num |-> (o - n) * 100, den |-> o] ELSE [num |-> 0, den |-> 1]

\* The exit without the "success == 0" test.
ExitStatusAlwaysZero(ok, nfiles) == 0

\* The status main ends with after the report.
ExitStatus(ok, nfiles) == IF ok = 0 /\ nfiles > 0 THEN 1 ELSE 0

(***************************************************************************)
(* The initial states: a tree on disk and a command line                   *)
(***************************************************************************)
\* The candidates base/name_k that a run starts with on disk.
RunCandidates == 0..1

Entry(d, stem, suffix, isfile, size) ==
    [dir |-> d, stem |-> stem, suffix |-> suffix, isfile |-> isfile, size |-> size]

\* The entries a tree is drawn from: images of several suffixes in the root
\* and a subdirectory, a WebP file, images left in earlier output
\* directories, a directory with an image suffix.
Universe ==
    { Entry(InputDir, "a", ".png", TRUE, 2),
      Entry(InputDir, "a", ".JPG", TRUE, 1),
      Entry(InputDir, "a", ".webp", TRUE, 1),
      Entry(Append(InputDir, Sub), "a", ".png", TRUE, 1),
      Entry(Append(InputDir, Sub), "b", ".jpeg", TRUE, 2),
      Entry(Append(InputDir, Suffixed(OutName, 0)), "a", ".png", TRUE, 1),
      Entry(<<InputDir[1], Suffixed(OutName, 0), Sub>>, "a", ".JPG", TRUE, 2),
      Entry(Append(InputDir, Suffixed(OutName, 1)), "a", ".png", TRUE, 1),
      Entry(InputDir, "d", ".png", FALSE, 0) }

\* An entry below base/name_k needs base/name_k to be a directory.
Consistent(fs, d) ==
    \A f \in d : \A k \in DOMAIN fs :
        Append(InputDir, Suffixed(OutName, k)) \in Parents(f) => fs[k] = "dir"

NoTasks == <<>>

Fresh ==
    /\ pc = "start"
    /\ output_dir = <<>>
    /\ files = <<>> /\ st = NoTasks /\ res = NoTasks /\ nxt = 0
    /\ success = 0 /\ failed = 0 /\ orig_total = 0 /\ new_total = 0
    /\ pct = Pct(0, 0)
    /\ interrupted = FALSE
    /\ code = -1
    /\ msg = ""
    /\ written = {}

NoImage == img = <<0, 0>> /\ max_width = 0 /\ out_size = <<0, 0>>

Init ==
    /\ kind \in {fs \in [0..MaxK -> Kinds] :
                    \A k \in DOMAIN fs : k \notin RunCandidates => fs[k] = "absent"}
    /\ name \in {OutName, ""}
    /\ disk \in {d \in SUBSET Universe : Cardinality(d) <= MaxFiles /\ Consistent(kind, d)}
    /\ run = 1
    /\ counts = <<>>
    /\ Fresh
    /\ NoImage

(***************************************************************************)
(* main, up to the pool                                                    *)
(***************************************************************************)
\* output_dir = get_unique_output_folder(input_dir, output_folder_name)
Resolve ==
    /\ pc = "start"
    /\ output_dir' = get_unique_output_folder(kind, InputDir, name)
    /\ pc' = "resolved"
    /\ UNCHANGED <<fsVars, run, poolVars, interrupted, code, msg, written, counts,
                   imageVars>>

\* if input_dir == output_dir: ... sys.exit(1)
SameFolder ==
    /\ pc = "resolved"
    /\ output_dir = InputDir
    /\ msg' = "Error: Input and Output folders cannot be the same."
    /\ code' = 1
    /\ pc' = "exit"
    /\ UNCHANGED <<fsVars, run, output_dir, poolVars, interrupted, written, counts,
                   imageVars>>

\* output_dir.mkdir(exist_ok=True), then the scan.
Scan ==
    /\ pc = "resolved"
    /\ output_dir # InputDir
    /\ kind' = [k \in DOMAIN kind |->
                   IF output_dir = Append(InputDir, Suffixed(name, k))
                   THEN "dir" ELSE kind[k]]
    /\ files' \in Orders({f \in disk : Qualifies(f, output_dir)})
    /\ counts' = Append(counts, Len(files'))
    /\ pc' = "scanned"
    /\ UNCHANGED <<disk, name, run, output_dir, st, res, nxt, success, failed,
                   orig_total, new_total, pct, interrupted, code, msg, written,
                   imageVars>>

\* if not files: logger.warning("No images found."); sys.exit(0)
NoImages ==
    /\ pc = "scanned"
    /\ files = <<>>
    /\ msg' = "No images found."
    /\ code' = 0
    /\ pc' = "exit"
    /\ UNCHANGED <<fsVars, run, output_dir, poolVars, interrupted, written, counts,
                   imageVars>>

\* tasks = [...]; the counters; executor.map(process_single_image, tasks)
Submit ==
    /\ pc = "scanned"
    /\ files # <<>>
    /\ st' = [i \in DOMAIN files |-> "pending"]
    /\ res' = [i \in DOMAIN files |-> [kind |-> "none"]]
    /\ nxt' = 0
    /\ success' = 0 /\ failed' = 0 /\ orig_total' = 0 /\ new_total' = 0
    /\ pc' = "loop"
    /\ UNCHANGED <<fsVars, run, output_dir, files, pct, interrupted, code, msg,
                   written, counts, imageVars>>

(***************************************************************************)
(* The pool: a worker takes the oldest pending task and runs               *)
(* process_single_image on it.                                             *)
(***************************************************************************)
Running == {i \in DOMAIN st : st[i] = "running"}

Start(i) ==
    /\ pc \in {"loop", "shutdown"}
    /\ st[i] = "pending"
    /\ \A j \in DOMAIN st : j < i => st[j] # "pending"
    /\ Cardinality(Running) < NumWorkers
    /\ st' = [st EXCEPT ![i] = "running"]
    /\ UNCHANGED <<fsVars, run, pc, output_dir, files, res, nxt, success, failed,
                   orig_total, new_total, pct, interrupted, code, msg, written,
                   counts, imageVars>>

Finish(i) ==
    /\ pc \in {"loop", "shutdown"}
    /\ st[i] = "running"
    /\ \E fail \in {"none"} \cup Steps, new \in 1..MaxSize :
         LET dest == OutputFilePath(files[i], output_dir, InputDir)
         IN  /\ res' = [res EXCEPT ![i] =
                          process_single_image(files[i], fail, files[i].size, new)]
             /\ written' = IF Saves(fail) THEN written \cup {dest} ELSE written
             /\ disk' = IF Saves(fail) THEN WriteFile(disk, dest, new) ELSE disk
    /\ st' = [st EXCEPT ![i] = "done"]
    /\ UNCHANGED <<kind, name, run, pc, output_dir, files, nxt, success, failed,
                   orig_total, new_total, pct, interrupted, code, msg, counts,
                   imageVars>>

(***************************************************************************)
(* main: the aggregation loop, the report, the signal handler              *)
(***************************************************************************)
\* One turn of "for is_ok, msg, orig, new_s in results": results come in
\* submission order; a task that raised re-raises here and ends main.
Collect ==
    /\ pc = "loop"
    /\ nxt < Len(files)
    /\ st[nxt + 1] = "done"
    /\ LET r == res[nxt + 1]
       IN  IF r.kind = "raised"
           THEN /\ pc' = "shutdown"
                /\ msg' = "Traceback"
                /\ UNCHANGED <<nxt, success, failed, orig_total, new_total>>
           ELSE LET acc == Fold([success |-> success, failed |-> failed,
                                 orig_total |-> orig_total,
                                 new_total |-> new_total], r)
                IN  /\ nxt' = nxt + 1
                    /\ success' = acc.success
                    /\ failed' = acc.failed
                    /\ orig_total' = acc.orig_total
                    /\ new_total' = acc.new_total
                    /\ msg' = IF r.kind = "ok" THEN "OK" ELSE "FAIL"
                /\ pc' = pc
    /\ UNCHANGED <<fsVars, run, output_dir, files, st, res, pct, interrupted, code,
                   written, counts, imageVars>>

\* The lines after the with block: the summary and the exit status.
Report ==
    /\ pc = "loop"
    /\ nxt = Len(files)
    /\ pct' = Pct(orig_total, new_total)
    /\ msg' = "Finished"
    /\ code' = ExitStatus(success, Len(files))
    /\ pc' = "exit"
    /\ UNCHANGED <<fsVars, run, output_dir, files, st, res, nxt, success, failed,
                   orig_total, new_total, interrupted, written, counts, imageVars>>

\* SIGINT or SIGTERM: signal_handler logs and raises SystemExit(1) in main.
\* Inside the loop the exception leaves through the with block, whose exit
\* waits for the pool; it reaches the pending futures' cancel only when it
\* is raised inside the results iterator (cancel), not in the loop body.
signal_handler ==
    /\ pc # "exit"
    /\ ~interrupted
    /\ interrupted' = TRUE
    /\ msg' = "[!] Process interrupted. Exiting..."
    /\ IF pc = "loop"
       THEN /\ pc' = "shutdown"
            /\ code' = code
            /\ \E cancel \in BOOLEAN :
                 st' = [i \in DOMAIN st |->
                          IF cancel /\ st[i] = "pending" THEN "cancelled" ELSE st[i]]
       ELSE /\ pc' = IF pc = "shutdown" THEN "shutdown" ELSE "exit"
            /\ code' = IF pc = "shutdown" THEN code ELSE 1
            /\ st' = st
    /\ UNCHANGED <<fsVars, run, output_dir, files, res, nxt, success, failed,
                   orig_total, new_total, pct, written, counts, imageVars>>

\* ProcessPoolExecutor.__exit__: shutdown(wait=True), then the exception
\* that left the loop ends the process with status 1.
Shutdown ==
    /\ pc = "shutdown"
    /\ \A i \in DOMAIN st : st[i] \in {"done", "cancelled"}
    /\ code' = 1
    /\ pc' = "exit"
    /\ UNCHANGED <<fsVars, run, output_dir, poolVars, interrupted, msg, written,
                   counts, imageVars>>

\* The operator runs the tool again on the same tree with the same arguments.
Rerun ==
    /\ pc = "exit"
    /\ run = 1
    /\ run' = 2
    /\ pc' = "start"
    /\ output_dir' = <<>>
    /\ files' = <<>> /\ st' = NoTasks /\ res' = NoTasks /\ nxt' = 0
    /\ success' = 0 /\ failed' = 0 /\ orig_total' = 0 /\ new_total' = 0
    /\ pct' = Pct(0, 0)
    /\ interrupted' = FALSE
    /\ code' = -1
    /\ msg' = ""
    /\ written' = {}
    /\ UNCHANGED <<fsVars, counts, imageVars>>

\* A run that no signal interrupts.
RunNext ==
    \/ Resolve \/ SameFolder \/ Scan \/ NoImages \/ Submit
    \/ \E i \in DOMAIN st : Start(i) \/ Finish(i)
    \/ Collect \/ Report

Next == RunNext \/ signal_handler \/ Shutdown

Spec == Init /\ [][Next]_vars

\* Two runs in a row, each to its end.
NextTwice == RunNext \/ Rerun

SpecTwice == Init /\ [][NextTwice]_vars

(***************************************************************************)
(* get_unique_output_folder alone, over every state of the candidates      *)
(***************************************************************************)
InitResolve ==
    /\ kind \in [0..MaxK -> Kinds]
    /\ name \in {OutName, ""}
    /\ disk = {}
    /\ run = 1
    /\ counts = <<>>
    /\ Fresh
    /\ NoImage

SpecResolve == InitResolve /\ [][Resolve]_vars

(***************************************************************************)
(* The with block of process_single_image alone, over image sizes          *)
(***************************************************************************)
InitResize ==
    /\ img \in (1..MaxDim) \X (1..MaxDim)
    /\ max_width \in 0..MaxDim
    /\ out_size = <<0, 0>>
    /\ kind = [k \in 0..MaxK |-> "absent"]
    /\ name = OutName
    /\ disk = {}
    /\ run = 1
    /\ counts = <<>>
    /\ Fresh

\* with Image.open(file_path) as img: ... img.save(...); a statement that
\* raises leaves through the handler and nothing is saved.
OpenResizeSave ==
    /\ pc = "start"
    /\ \E fail \in {"none", "open", "resize", "save"} :
         IF fail = "none"
         THEN /\ out_size' = ResizedSize(img[1], img[2], max_width)
              /\ pc' = "saved"
         ELSE /\ out_size' = out_size
              /\ pc' = "failed"
    /\ UNCHANGED <<fsVars, run, output_dir, poolVars, interrupted, code, msg,
                   written, counts, img, max_width>>

SpecResize == InitResize /\ [][OpenResizeSave]_vars

(***************************************************************************)
(* Properties                                                              *)
(***************************************************************************)
Interrupted == "[!] Process interrupted. Exiting..."
Completed   == pc = "exit" /\ msg = "Finished"
Done(kinds) == {i \in DOMAIN res : res[i].kind \in kinds}
Consumed(kinds) == {i \in 1..nxt : res[i].kind \in kinds}
Dest(i)     == OutputFilePath(files[i], output_dir, InputDir)
Under(d, root) == Len(d) >= Len(root) /\ SubSeq(d, 1, Len(root)) = root

RECURSIVE Sum(_, _)
Sum(S, field) ==
    IF S = {} THEN 0
    ELSE LET i == CHOOSE x \in S : TRUE
         IN  (IF field = "orig" THEN res[i].orig ELSE res[i].new) + Sum(S \ {i}, field)

\* C1: a run that completes has folded exactly one outcome per submitted
\* item: the loop has consumed as many outcomes as it counted, and at the
\* end succeeded is the number of items that succeeded, failed the number
\* that failed, and the two add up to the number of items.
C1_ExactlyOneOutcomePerItem ==
    /\ pc \in {"loop", "shutdown", "exit"} => success + failed = nxt
    /\ Completed =>
         /\ nxt = Len(files)
         /\ success = Cardinality(Done({"ok"}))
         /\ failed = Cardinality(Done({"fail"}))
         /\ success + failed = Len(files)

C1_Witness ==
    Completed /\ Len(files) = 2 /\ success = 1 /\ failed = 1

\* C2: whatever statement of process_single_image raises, the call returns
\* a failure outcome and never raises into the pool; a run that no signal
\* interrupts converts and reports every item, whichever of them fail.
C2_FailuresAreOutcomes ==
    /\ \A i \in DOMAIN res : res[i].kind \in {"none", "ok", "fail"}
    /\ msg # "Traceback"
    /\ (pc = "exit" /\ ~interrupted /\ files # <<>>) =>
         /\ msg = "Finished"
         /\ nxt = Len(files)
         /\ \A i \in DOMAIN st : st[i] = "done"

C2_Witness ==
    /\ Completed /\ Len(files) = 2
    /\ res[1].kind = "fail" /\ res[2].kind = "ok"

\* C3: no two tasks that workers are running at the same time write the
\* same output file (each item of a work set has a destination of its own).
C3_UniqueDestination ==
    \A i, j \in Running : i # j => Dest(i) # Dest(j)

\* C4: no file that lies anywhere under the output directory is in the work
\* set, and the second of two runs on the same tree with the same output
\* name scans a work set of the same size as the first.
C4_ScanExcludesOutput ==
    /\ \A i \in DOMAIN files : ~Under(files[i].dir, output_dir)
    /\ Len(counts) = 2 => counts[1] = counts[2]

C4_Witness ==
    /\ run = 2 /\ pc = "loop" /\ Len(counts) = 2
    /\ \E e \in disk : /\ Under(e.dir, output_dir)
                       /\ e.isfile /\ e.suffix = ".webp"
    /\ \E e \in disk : /\ Under(e.dir, output_dir) /\ Len(e.dir) > Len(output_dir)
                       /\ e.isfile /\ Lower(e.suffix) \in EXTENSIONS

\* C5: once the signal handler has run, no task that has not started yet is
\* started by a worker.
C5_NoDispatchAfterInterrupt ==
    [][interrupted => \A i \in DOMAIN st : st[i] = "pending" => st'[i] # "running"]_vars

\* C6: a run that finds no image ends with status 0; a run that attempted
\* at least one file and converted none ends with status 1; a run with at
\* least one success ends with status 0 however many items failed; an
\* interrupted run ends with status 1 and the interrupt message as its last
\* line, never with the summary or the no-images line the other three end
\* with.
C6_TerminalStates ==
    pc = "exit" =>
      /\ interrupted => code = 1 /\ msg = Interrupted
      /\ (~interrupted /\ output_dir # InputDir /\ files = <<>>) =>
            code = 0 /\ msg = "No images found."
      /\ (~interrupted /\ files # <<>> /\ success = 0) =>
            code = 1 /\ msg = "Finished"
      /\ (~interrupted /\ success > 0) => code = 0 /\ msg = "Finished"
      /\ msg = Interrupted => interrupted

C6_Witness ==
    /\ pc = "exit" /\ interrupted /\ files # <<>>
    /\ failed = Len(files) /\ success = 0

\* C7: whatever outcomes the loop has folded, succeeded and failed are the
\* numbers of success and failure outcomes among them, the byte totals are
\* the sums over the success outcomes only, and the percentage of the report
\* is (orig_total - new_total) / orig_total * 100 when orig_total > 0 and 0
\* otherwise, with a denominator that is never 0.
C7_ReportIsFold ==
    /\ pc \in {"loop", "shutdown", "exit"} =>
         /\ success = Cardinality(Consumed({"ok"}))
         /\ failed = Cardinality(Consumed({"fail"}))
         /\ orig_total = Sum(Consumed({"ok"}), "orig")
         /\ new_total = Sum(Consumed({"ok"}), "new")
    /\ Completed =>
         /\ pct.den # 0
         /\ IF Sum(Consumed({"ok"}), "orig") > 0
            THEN pct.num * Sum(Consumed({"ok"}), "orig") =
                   (Sum(Consumed({"ok"}), "orig") - Sum(Consumed({"ok"}), "new"))
                     * 100 * pct.den
            ELSE pct.num = 0

C7_Witness ==
    /\ Completed /\ Len(files) = 2
    /\ res[1].kind = "ok" /\ res[2].kind = "fail"
    /\ orig_total = 2 /\ new_total = 1 /\ pct = [num |-> 100, den |-> 2]

C7_WitnessAllFailed ==
    Completed /\ success = 0 /\ failed = 2 /\ pct.num = 0

\* C8 as stated: a saved image wider than the max width has width
\* max_width and height exactly floor(height * max_width / width); any
\* other saved image has the size of its source.
C8_ExactFloorHeight ==
    pc = "saved" =>
      IF max_width # 0 /\ img[1] > max_width
      THEN out_size = <<max_width, (img[2] * max_width) \div img[1]>>
      ELSE out_size = img

\* C8 amended: a saved image wider than the max width has width max_width
\* and the height int(height * (max_width / width)) of double arithmetic,
\* which is floor(height * max_width / width) or, only when width divides
\* height * max_width, one less; any other saved image has the size of its
\* source, so the width never grows.
C8_ResizedSize ==
    pc = "saved" =>
      /\ out_size[1] <= img[1]
      /\ IF max_width # 0 /\ img[1] > max_width
         THEN LET exact == (img[2] * max_width) \div img[1]
              IN  /\ out_size[1] = max_width
                  /\ out_size[2] \in {exact - 1, exact}
                  /\ (img[2] * max_width) % img[1] # 0 => out_size[2] = exact
         ELSE out_size = img

C8_Witness ==
    pc = "saved" /\ img = <<22, 22>> /\ max_width = 15 /\ out_size = <<15, 14>>

\* C9: when base/name is a regular file the function returns base/name_k
\* for the smallest k >= 1 such that base/name_k is no regular file; when
\* base/name is a directory or does not exist it returns base/name; what it
\* returns is never a regular file.
C9_UniqueOutputFolder ==
    (pc = "resolved" /\ name # "") =>
      /\ IF kind[0] = "file"
         THEN \E k \in 1..(MaxK + 1) :
                /\ output_dir = Append(InputDir, <<name, k>>)
                /\ KindOf(kind, k) # "file"
                /\ \A j \in 1..(k - 1) : KindOf(kind, j) = "file"
         ELSE output_dir = Append(InputDir, <<name, 0>>)
      /\ \A k \in 0..MaxK :
           output_dir = Append(InputDir, <<name, k>>) => kind[k] # "file"

C9_Witness ==
    /\ pc = "resolved" /\ name # ""
    /\ kind[0] = "file" /\ kind[1] = "file" /\ kind[2] = "dir"
    /\ output_dir = Append(InputDir, <<name, 2>>)

\* C10: every path a conversion writes is the output directory joined with
\* the item's path below the input root, its suffix replaced by .webp; it
\* is the path of no item of the work set, and every source image stays on
\* disk as it was.
C10_NeverWritesSource ==
    /\ \A i \in DOMAIN st :
         (st[i] = "running" \/ Dest(i) \in written) =>
           /\ Dest(i).suffix = ".webp"
           /\ Dest(i).dir = output_dir \o SubSeq(files[i].dir, Len(InputDir) + 1,
                                                  Len(files[i].dir))
           /\ \A j \in DOMAIN files : PathOf(files[j]) # Dest(i)
    /\ written \subseteq {Dest(i) : i \in DOMAIN files}
    /\ \A j \in DOMAIN files : files[j] \in disk

C10_Witness ==
    /\ Completed /\ Len(files) = 2 /\ Cardinality(written) = 2
    /\ \E p \in written : Len(p.dir) > Len(output_dir)

====
